---- MODULE Spec2Model ----
(***************************************************************************)
(* Model of the fieldset crate: the three derived recorders (OptFieldSet,  *)
(* BitFieldSet, PerfFieldSet), the live model they replay onto, and the    *)
(* bit store.  The derive macro is modelled by what the code it emits      *)
(* does for a given struct definition.                                     *)
(*                                                                         *)
(* A tag (a value of a derived FieldType enum) is the record               *)
(* [path |-> <<k1, ..., kn>>, val |-> v]: ki is the 1-based position of    *)
(* the enum variant chosen at nesting level i (outermost first), v the     *)
(* value carried by the innermost, leaf variant.                           *)
(*                                                                         *)
(* The three recorders and the live model are driven in lockstep by the    *)
(* same sequence of apply(tag) calls, as the three tests of src/src/lib.rs *)
(* do.  A recorder whose write panicked (Rust index out of bounds) keeps   *)
(* the state it had at the panic and takes no further write.               *)
(***************************************************************************)
EXTENDS Integers, Sequences, FiniteSets, TLC

\* The state: the struct the batch is about, the writes made so far, the
\* live struct, the three recorders, a bit store, a PerfFieldSet of a
\* struct of EntryLeaves leaves, a BitFieldSet of a struct of leaves only,
\* and whether the build checks integer overflow (the debug profile does,
\* the release profile does not).
VARIABLES root, writes, model, opt, bit, perf, store, entry, alloc, overflow_checks
vars == <<root, writes, model, opt, bit, perf, store, entry, alloc, overflow_checks>>

\* ------------------------------------------------------------------ bounds
MaxWrites == 3          \* writes per batch
MaxWideWrites == 1      \* writes per batch on the 33-leaf struct
NumValues == 2          \* distinct non-default field values
StoreWords == 2         \* N_32 of the BitSet driven on its own
MaxStoreOps == 4        \* operations made on that BitSet
MaxEntryOps == 2         \* writes made on the PerfFieldSet of EntryLeaves leaves
EntryLeaves == 65537    \* leaves of the struct whose cursor passes u16::MAX
MaxAllocOps == 2         \* writes made on the BitFieldSet of leaves only
MaxAllocVariance == 65  \* largest VARIANCE of such a BitFieldSet

\* --------------------------------------------------------------- constants
WordBits == 32          \* u32 words of the bit store
U16Mod == 65536         \* the slot-index table holds u16 entries

Values == 1..NumValues
DefaultValue == 0

\* ------------------------------------------------------- struct definitions
\* A field of a struct deriving FieldSet: nested = carries #[fieldset].
LeafField == [nested |-> FALSE, ty |-> "value"]
NestedField(t) == [nested |-> TRUE, ty |-> t]

\* The structs the model is run on: the test structs of src/src/lib.rs
\* (Inner2, Inner, Outer, TestFirstField), the structs of the crate doc
\* example (SubModel, DomainModel), and Wide: WordBits - 1 leaves followed
\* by a nested Inner2, so that a nested window straddles a word boundary.
Fields(name) ==
    CASE name = "Inner2" -> <<LeafField, LeafField>>
      [] name = "Inner" -> <<LeafField, LeafField, NestedField("Inner2")>>
      [] name = "Outer" -> <<LeafField, LeafField, NestedField("Inner")>>
      [] name = "TestFirstField" -> <<NestedField("Inner")>>
      [] name = "SubModel" -> <<LeafField, LeafField>>
      [] name = "DomainModel" -> <<NestedField("SubModel"), LeafField>>
      [] name = "Wide" -> [i \in 1..(WordBits - 1) |-> LeafField] \o <<NestedField("Inner2")>>

Roots == {"Outer", "TestFirstField", "DomainModel", "Wide"}

is_fieldset(field) == field.nested

\* derive_fieldset_variance: the sum of the nested fields' variances plus
\* the count of the other fields.
RECURSIVE Variance(_)
RECURSIVE variances(_, _)
variances(fs, n) ==
    IF n = 0 THEN 0
    ELSE variances(fs, n - 1) + (IF is_fieldset(fs[n]) THEN Variance(fs[n].ty) ELSE 0)
\* A count that takes in the nested fields too.
field_count_all(fs) == Len(fs)
field_count(fs) == Cardinality({i \in 1..Len(fs) : ~is_fieldset(fs[i])})
Variance(name) == variances(Fields(name), Len(Fields(name))) + field_count(Fields(name))

\* derive_field_type: the values of <name>FieldType, without the carried
\* value: one variant per field, a nested variant carrying the sub-struct's
\* own FieldType.
RECURSIVE FieldTypePaths(_)
FieldTypePaths(name) ==
    UNION { IF is_fieldset(Fields(name)[k])
            THEN { <<k>> \o p : p \in FieldTypePaths(Fields(name)[k].ty) }
            ELSE { <<k>> } : k \in 1..Len(Fields(name)) }

FieldType(name) == [path : FieldTypePaths(name), val : Values]

\* Option<FieldType>
NoTag == [path |-> <<>>, val |-> DefaultValue]
None == [some |-> FALSE, tag |-> NoTag]
Some(t) == [some |-> TRUE, tag |-> t]

\* ------------------------------------------------------------- live model
\* The struct itself: a leaf field holds a value, a nested field the
\* sub-struct.  Default::default() gives every leaf the default value.
RECURSIVE ModelNew(_)
ModelNew(name) ==
    [k \in 1..Len(Fields(name)) |->
        IF is_fieldset(Fields(name)[k]) THEN ModelNew(Fields(name)[k].ty)
        ELSE DefaultValue]

\* A setter that writes only a field still holding its default.
RawFieldSetter_set_once(slot, value) == IF slot = DefaultValue THEN value ELSE slot

\* RawFieldSetter::set: *self.0 = value
RawFieldSetter_set(slot, value) == value

\* An apply that rebuilds the struct from Default before it writes.
RECURSIVE ModelApply_reset(_, _, _, _)
ModelApply_reset(m, name, path, value) ==
    LET k == Head(path)
    IN IF is_fieldset(Fields(name)[k])
       THEN [ModelNew(name) EXCEPT
                ![k] = ModelApply_reset(m[k], Fields(name)[k].ty, Tail(path), value)]
       ELSE [ModelNew(name) EXCEPT ![k] = RawFieldSetter_set(m[k], value)]

\* <name>FieldSetter::apply on the struct (derive_setter_trait with the
\* accessors of derive_raw_fieldset_setter_trait_impl).
RECURSIVE ModelApply(_, _, _, _)
ModelApply(m, name, path, value) ==
    LET k == Head(path)
    IN IF is_fieldset(Fields(name)[k])
       THEN [m EXCEPT ![k] = ModelApply(m[k], Fields(name)[k].ty, Tail(path), value)]
       ELSE [m EXCEPT ![k] = RawFieldSetter_set(m[k], value)]

\* An iterator that yields the leaves of the struct itself and none of
\* its nested structs.
RECURSIVE model_iter_chain_leaves(_, _, _, _)
model_iter_chain_leaves(m, name, f, n) ==
    IF n = 0 THEN <<>>
    ELSE model_iter_chain_leaves(m, name, f, n - 1) \o
         (IF is_fieldset(Fields(name)[n]) THEN <<>>
          ELSE << [path |-> Append(f, n), val |-> m[n]] >>)

\* derive_into_iterator: empty(), then per field in declared order
\* chain(once(Variant(self.field))) or
\* chain(self.field.into_iter().map(Variant)); f is the chain of enclosing
\* variants.
RECURSIVE model_iter(_, _, _)
RECURSIVE model_iter_chain(_, _, _, _)
model_iter_chain(m, name, f, n) ==
    IF n = 0 THEN <<>>
    ELSE model_iter_chain(m, name, f, n - 1) \o
         (IF is_fieldset(Fields(name)[n])
          THEN model_iter(m[n], Fields(name)[n].ty, Append(f, n))
          ELSE << [path |-> Append(f, n), val |-> m[n]] >>)
model_iter(m, name, f) == model_iter_chain(m, name, f, Len(Fields(name)))

\* <name>::into_iter
ModelIntoIter(m, name) == model_iter(m, name, <<>>)

\* ------------------------------------------------------------ OptFieldSet
\* derive_opt_fieldset_type: a leaf field becomes Option<ty>, a nested
\* field the sub-struct's OptFieldSet; new() is Default.
OptNone == [some |-> FALSE, val |-> DefaultValue]
\* A Some that reads as absent.
OptSome_absent(v) == [some |-> FALSE, val |-> v]
OptSome(v) == [some |-> TRUE, val |-> v]

RECURSIVE OptNew(_)
OptNew(name) ==
    [k \in 1..Len(Fields(name)) |->
        IF is_fieldset(Fields(name)[k]) THEN OptNew(Fields(name)[k].ty)
        ELSE OptNone]

\* A setter that keeps a value already present (first write wins).
OptFieldSetter_set_keep(slot, value) == IF slot.some THEN slot ELSE OptSome(value)

\* OptFieldSetter::set: *self.0 = Some(value)
OptFieldSetter_set(slot, value) == OptSome(value)

\* <name>FieldSetter::apply on the OptFieldSet.
RECURSIVE OptApply(_, _, _, _)
OptApply(o, name, path, value) ==
    LET k == Head(path)
    IN IF is_fieldset(Fields(name)[k])
       THEN [o EXCEPT ![k] = OptApply(o[k], Fields(name)[k].ty, Tail(path), value)]
       ELSE [o EXCEPT ![k] = OptFieldSetter_set(o[k], value)]

\* opt_iter: per field in declared order, once(field.map(Variant)) or the
\* sub-set's opt_iter mapped into the Variant; f is the chain of enclosing
\* variants.
RECURSIVE opt_iter(_, _, _)
RECURSIVE opt_iter_chain(_, _, _, _)
opt_iter_chain(o, name, f, n) ==
    IF n = 0 THEN <<>>
    ELSE opt_iter_chain(o, name, f, n - 1) \o
         (IF is_fieldset(Fields(name)[n])
          THEN opt_iter(o[n], Fields(name)[n].ty, Append(f, n))
          ELSE << IF o[n].some THEN Some([path |-> Append(f, n), val |-> o[n].val])
                  ELSE None >>)
opt_iter(o, name, f) == opt_iter_chain(o, name, f, Len(Fields(name)))

\* A flatten that ends at the first None, as map_while does.
RECURSIVE flatten_stop(_)
flatten_stop(s) ==
    IF s = <<>> \/ ~Head(s).some THEN <<>>
    ELSE <<Head(s).tag>> \o flatten_stop(Tail(s))

\* Iterator::flatten over Option items
RECURSIVE flatten(_)
flatten(s) ==
    IF s = <<>> THEN <<>>
    ELSE (IF Head(s).some THEN <<Head(s).tag>> ELSE <<>>) \o flatten(Tail(s))

\* IntoIterator for <name>OptFieldSet
OptIntoIter(o, name) == flatten(opt_iter(o, name, <<>>))

\* --------------------------------------------- BitFieldSet / PerfFieldSet
\* common_trait_impl_methods: the value of index_expr at field k, built
\* from prev_expr (the end of the last nested field) and index (the leaf
\* fields since).
RECURSIVE index_expr(_, _)
index_expr(name, k) ==
    IF k = 1 THEN 0
    ELSE IF is_fieldset(Fields(name)[k - 1])
         THEN index_expr(name, k - 1) + Variance(Fields(name)[k - 1].ty)
         ELSE index_expr(name, k - 1) + 1

\* map_while(|x| x) over the fields array: the Some prefix, unwrapped.
RECURSIVE map_while(_)
map_while(s) ==
    IF s = <<>> \/ ~Head(s).some THEN <<>>
    ELSE <<Head(s).tag>> \o map_while(Tail(s))

\* A recorder after a panic: the state at the panic, frozen.
Panic(rec) == [rec EXCEPT !.panicked = TRUE]

\* ---- PerfFieldSet
\* A new() that starts the cursor at the array length.
PerfNew_full(name) ==
    [bitset |-> [i \in 1..Variance(name) |-> 0],
     fields |-> [i \in 1..Variance(name) |-> None],
     len |-> Variance(name),
     panicked |-> FALSE,
     acc |-> -1]

\* derive_perf_fieldset: bitset: [u16; VARIANCE], fields: [Option; VARIANCE]
PerfNew(name) ==
    [bitset |-> [i \in 1..Variance(name) |-> 0],
     fields |-> [i \in 1..Variance(name) |-> None],
     len |-> 0,
     panicked |-> FALSE,
     acc |-> -1]

\* The setter a method is called on: the slices it holds, as ranges
\* [lo, hi) of the recorder's arrays, and the wrap closure f.
\* derive_common_fieldset_trait_impl: self.bitset, self.fields, Some
PerfTop(rec) ==
    [blo |-> 0, bhi |-> Len(rec.bitset), flo |-> 0, fhi |-> Len(rec.fields),
     f |-> <<>>, ok |-> TRUE]

\* common_trait_impl_methods, nested field, is_bitset = false:
\* PerfFieldSetter(&mut bitset[start..end], &mut fields[start..end], &mut len, ..)
PerfNested(v, name, k) ==
    LET start == index_expr(name, k)
        end == start + Variance(Fields(name)[k].ty)
    IN [blo |-> v.blo + start, bhi |-> v.blo + end,
        flo |-> v.flo + start, fhi |-> v.flo + end,
        f |-> Append(v.f, k),
        ok |-> end <= v.bhi - v.blo /\ end <= v.fhi - v.flo]

\* *self.2 as u16 + 1: the cast keeps the low 16 bits of the cursor; the
\* u16 addition overflows at u16::MAX, which panics where overflow is
\* checked and wraps to 0 where it is not.
slot_entry(len) ==
    LET c == len % U16Mod
    IN IF c + 1 < U16Mod THEN [ok |-> TRUE, val |-> c + 1]
       ELSE [ok |-> ~overflow_checks, val |-> (c + 1) % U16Mod]

\* PerfFieldLeafSetter::set; i is self.3, v.f the closure self.4
PerfFieldLeafSetter_set(rec, v, i, value) ==
    IF i >= v.bhi - v.blo THEN Panic(rec)
    ELSE LET t == rec.bitset[v.blo + i + 1]
             r0 == [rec EXCEPT !.acc = v.blo + i]
         IN IF t = 0
            THEN LET e == slot_entry(rec.len)
                     r1 == [r0 EXCEPT !.bitset[v.blo + i + 1] = e.val]
                 IN IF ~e.ok THEN Panic(r0)
                    ELSE IF rec.len >= v.fhi - v.flo THEN Panic(r1)
                    ELSE [r1 EXCEPT !.fields[v.flo + rec.len + 1] = Some([path |-> v.f, val |-> value]),
                                    !.len = rec.len + 1]
            ELSE IF t - 1 >= v.fhi - v.flo THEN Panic(r0)
                 ELSE [r0 EXCEPT !.fields[v.flo + t] = Some([path |-> v.f, val |-> value])]

\* <name>FieldSetter::apply on a PerfFieldSet or a PerfFieldSetter
RECURSIVE PerfApply(_, _, _, _, _)
PerfApply(rec, v, name, path, value) ==
    LET k == Head(path)
    IN IF is_fieldset(Fields(name)[k])
       THEN LET sub == PerfNested(v, name, k)
            IN IF ~sub.ok THEN Panic(rec)
               ELSE PerfApply(rec, sub, Fields(name)[k].ty, Tail(path), value)
       ELSE PerfFieldLeafSetter_set(rec, [v EXCEPT !.f = Append(v.f, k)],
                                    index_expr(name, k), value)

\* ---- BitFieldSet
\* derive_bitset_fieldset: bitset: [u32; (VARIANCE + 31) / 32]; a word is
\* the set of the positions of its 1 bits.
\* A word count that rounds down.
bitset_words_floor(variance) == variance \div WordBits

\* (VARIANCE + 31) / 32
bitset_words(variance) == (variance + 31) \div WordBits

\* new() for a struct of the given VARIANCE
BitAlloc(variance) ==
    [bitset |-> [i \in 1..bitset_words(variance) |-> {}],
     fields |-> [i \in 1..variance |-> None],
     len |-> 0,
     panicked |-> FALSE,
     acc |-> -1]

BitNew(name) == BitAlloc(Variance(name))

\* The bit view of a setter: the word slice [wlo, whi) and the base bit
\* offset of BitSetOffsetted.
BitTop(rec) ==
    [wlo |-> 0, whi |-> Len(rec.bitset), offset |-> 0,
     flo |-> 0, fhi |-> Len(rec.fields), f |-> <<>>, ok |-> TRUE]

\* common_trait_impl_methods, nested field, is_bitset = true:
\* BitFieldSetter(&mut bitset[(start)/32..(start + VARIANCE)/32],
\*                &mut fields[start..end], &mut len, ..)
\* The accessor narrows the word slice and never calls
\* BitSetOffsetted::offset, so the sub-setter's view is that word slice
\* with the base bit offset it had.
BitNested(v, name, k) ==
    LET start == index_expr(name, k)
        end == start + Variance(Fields(name)[k].ty)
    IN [wlo |-> v.wlo + (start \div WordBits), whi |-> v.wlo + (end \div WordBits),
        offset |-> v.offset,
        flo |-> v.flo + start, fhi |-> v.flo + end,
        f |-> Append(v.f, k),
        ok |-> (end \div WordBits) <= v.whi - v.wlo /\ end <= v.fhi - v.flo]

\* An idx that forgets the base offset of the view.
idx_local(v, index) == index

\* BitSetOffsetted::idx
idx(v, index) == v.offset + index

\* BitSetOffsetted::test / set, on the words of the recorder
BitSetOffsetted_inrange(v, i) == idx(v, i) \div WordBits < v.whi - v.wlo
BitSetOffsetted_test(bits, v, i) ==
    (idx(v, i) % WordBits) \in bits[v.wlo + (idx(v, i) \div WordBits) + 1]
BitSetOffsetted_set(bits, v, i) ==
    [bits EXCEPT ![v.wlo + (idx(v, i) \div WordBits) + 1] = @ \cup {idx(v, i) % WordBits}]

\* BitSetOffsetted::clear
BitSetOffsetted_clear(bits, v, i) ==
    [bits EXCEPT ![v.wlo + (idx(v, i) \div WordBits) + 1] = @ \ {idx(v, i) % WordBits}]

\* BitSetOffsetted::offset: the same words, base self.offset + offset
BitSetOffsetted_offset(v, offset) == [v EXCEPT !.offset = v.offset + offset]

\* BitSet::new and BitSet::offset, for a BitSet<n>
BitSet_new(n) == [w \in 1..n |-> {}]
BitSet_offset(n, offset) == [wlo |-> 0, whi |-> n, offset |-> offset]

\* BitFieldLeafSetter::set; i is self.3, v.f the closure self.4
BitFieldLeafSetter_set(rec, v, i, value) ==
    IF ~BitSetOffsetted_inrange(v, i) THEN Panic(rec)
    ELSE LET r0 == [rec EXCEPT !.acc = WordBits * v.wlo + idx(v, i)]
         IN IF ~BitSetOffsetted_test(rec.bitset, v, i)
            THEN LET r1 == [r0 EXCEPT !.bitset = BitSetOffsetted_set(rec.bitset, v, i)]
                 IN IF rec.len >= v.fhi - v.flo THEN Panic(r1)
                    ELSE [r1 EXCEPT !.fields[v.flo + rec.len + 1] = Some([path |-> v.f, val |-> value]),
                                    !.len = rec.len + 1]
            ELSE r0

\* <name>FieldSetter::apply on a BitFieldSet or a BitFieldSetter
RECURSIVE BitApply(_, _, _, _, _)
BitApply(rec, v, name, path, value) ==
    LET k == Head(path)
    IN IF is_fieldset(Fields(name)[k])
       THEN LET sub == BitNested(v, name, k)
            IN IF ~sub.ok THEN Panic(rec)
               ELSE BitApply(rec, sub, Fields(name)[k].ty, Tail(path), value)
       ELSE BitFieldLeafSetter_set(rec, [v EXCEPT !.f = Append(v.f, k)],
                                   index_expr(name, k), value)

\* IntoIterator for <name>BitFieldSet / <name>PerfFieldSet
IntoIter(rec) == map_while(rec.fields)

\* The setter reached from setter v of struct name through the chain q of
\* nested-field methods (model.field_i().field_i2() ...).
RECURSIVE BitViewAt(_, _, _)
BitViewAt(v, name, q) ==
    IF q = <<>> THEN v
    ELSE BitViewAt(BitNested(v, name, Head(q)), Fields(name)[Head(q)].ty, Tail(q))
RECURSIVE PerfViewAt(_, _, _)
PerfViewAt(v, name, q) ==
    IF q = <<>> THEN v
    ELSE PerfViewAt(PerfNested(v, name, Head(q)), Fields(name)[Head(q)].ty, Tail(q))

\* The struct a chain q of nested fields of struct name leads to.
RECURSIVE StructAt(_, _)
StructAt(name, q) ==
    IF q = <<>> THEN name ELSE StructAt(Fields(name)[Head(q)].ty, Tail(q))

\* A fresh recorder of struct name after apply(ws[1]), ..., apply(ws[n]).
RECURSIVE OptRun(_, _, _)
OptRun(name, ws, n) ==
    IF n = 0 THEN OptNew(name)
    ELSE OptApply(OptRun(name, ws, n - 1), name, ws[n].path, ws[n].val)
RECURSIVE BitRun(_, _, _)
BitRun(name, ws, n) ==
    IF n = 0 THEN BitNew(name)
    ELSE LET r == BitRun(name, ws, n - 1)
         IN IF r.panicked THEN r
            ELSE BitApply(r, BitTop(r), name, ws[n].path, ws[n].val)
RECURSIVE PerfRun(_, _, _)
PerfRun(name, ws, n) ==
    IF n = 0 THEN PerfNew(name)
    ELSE LET r == PerfRun(name, ws, n - 1)
         IN IF r.panicked THEN r
            ELSE PerfApply(r, PerfTop(r), name, ws[n].path, ws[n].val)

\* ------------------------------------------------------------------ state

\* A BitSet<StoreWords> and one offsetted view of it: chain holds the
\* offsets the view was derived through, last the operation made last
\* (before: the words before it, res: what test returned), n the number
\* of operations made.
StoreNew ==
    [bits |-> BitSet_new(StoreWords),
     view |-> BitSet_offset(StoreWords, 0),
     chain |-> <<0>>,
     n |-> 0,
     last |-> [op |-> "new", i |-> 0, before |-> BitSet_new(StoreWords), res |-> FALSE]]

\* The leaves (1-based field numbers) written on the PerfFieldSet of a
\* struct of EntryLeaves leaves and no nested slot, and the array
\* positions such writes can reach in MaxEntryOps writes from a cursor of
\* EntryCursors: the first ones and those from u16::MAX - 1 on.
EntryFields == {1, U16Mod, U16Mod + 1}
EntryCursors == {0, 1, U16Mod - 2, U16Mod - 1}
EntryPositions == (1..(MaxEntryOps + 2)) \cup ((U16Mod - 1)..EntryLeaves)

\* That PerfFieldSet after its first c leaves were written once each, in
\* declaration order; c < U16Mod, so no table entry has overflowed yet.
\* Of the table only the entries of EntryFields are kept, of the array
\* only EntryPositions: a write of the batch reads and writes no other.
EntryStart(c) ==
    [rec |-> [bitset |-> [i \in EntryFields |-> IF i <= c THEN slot_entry(i - 1).val ELSE 0],
              fields |-> [i \in EntryPositions |->
                             IF i <= c THEN Some([path |-> <<i>>, val |-> 1]) ELSE None],
              len |-> c,
              panicked |-> FALSE,
              acc |-> -1],
     n |-> 0,
     k |-> 0]

\* The BitFieldSet of a struct of variance leaves and no nested slot,
\* new(): done holds the flat indexes written, k the leaf written last.
AllocStart(variance) ==
    [rec |-> BitAlloc(variance), variance |-> variance, n |-> 0, k |-> 0, done |-> {}]

\* No such recorder in use.
AllocIdle == AllocStart(1)

\* No such recorder in use.
EntryIdle == [rec |-> PerfNew("Inner2"), n |-> 0, k |-> 0]

\* The batches of the crate's tests, which cargo builds with overflow
\* checks on; their cursors stay far below u16::MAX, where the two builds
\* do not differ (InitEntry starts next to u16::MAX and tries both).
Init ==
    /\ root \in Roots
    /\ writes = <<>>
    /\ model = ModelNew(root)
    /\ opt = OptNew(root)
    /\ bit = BitNew(root)
    /\ perf = PerfNew(root)
    /\ store = StoreNew
    /\ entry = EntryIdle
    /\ alloc = AllocIdle
    /\ overflow_checks = TRUE

WriteBound == IF root = "Wide" THEN MaxWideWrites ELSE MaxWrites

\* One apply(tag) of the batch, made on the struct and on each recorder.
Apply(t) ==
    /\ Len(writes) < WriteBound
    /\ writes' = Append(writes, t)
    /\ model' = ModelApply(model, root, t.path, t.val)
    /\ opt' = OptApply(opt, root, t.path, t.val)
    /\ bit' = IF bit.panicked THEN bit
              ELSE BitApply(bit, BitTop(bit), root, t.path, t.val)
    /\ perf' = IF perf.panicked THEN perf
               ELSE PerfApply(perf, PerfTop(perf), root, t.path, t.val)
    /\ UNCHANGED <<root, store, entry, alloc, overflow_checks>>

Next == \E t \in FieldType(root) : Apply(t)

Spec == Init /\ [][Next]_vars

\* ---- the bit store on its own
\* Bit indexes and offsets the operations are made with; an index is
\* caller-guaranteed to be in range of the words.
StoreIndexes == {0, 1, WordBits - 1, WordBits}
StoreOffsets == {1, WordBits - 1, WordBits}

StoreOp(op, i, bits, res) ==
    /\ store.n < MaxStoreOps
    /\ BitSetOffsetted_inrange(store.view, i)
    /\ store' = [store EXCEPT !.bits = bits, !.n = store.n + 1,
                              !.last = [op |-> op, i |-> i, before |-> store.bits, res |-> res]]
    /\ UNCHANGED <<root, writes, model, opt, bit, perf, entry, alloc, overflow_checks>>

StoreTest(i) ==
    StoreOp("test", i, store.bits, BitSetOffsetted_test(store.bits, store.view, i))
StoreSet(i) ==
    StoreOp("set", i, BitSetOffsetted_set(store.bits, store.view, i), FALSE)
StoreClear(i) ==
    StoreOp("clear", i, BitSetOffsetted_clear(store.bits, store.view, i), FALSE)
StoreOffset(k) ==
    /\ store.n < MaxStoreOps
    /\ store.view.offset + k < WordBits * StoreWords
    /\ store' = [store EXCEPT !.view = BitSetOffsetted_offset(store.view, k),
                              !.n = store.n + 1,
                              !.chain = Append(store.chain, k),
                              !.last = [op |-> "offset", i |-> k, before |-> store.bits, res |-> FALSE]]
    /\ UNCHANGED <<root, writes, model, opt, bit, perf, entry, alloc, overflow_checks>>

NextStore ==
    \/ \E i \in StoreIndexes : StoreTest(i)
    \/ \E i \in StoreIndexes : StoreSet(i)
    \/ \E i \in StoreIndexes : StoreClear(i)
    \/ \E k \in StoreOffsets : StoreOffset(k)

InitStore == Init /\ root = "DomainModel"

SpecStore == InitStore /\ [][NextStore]_vars

\* ------------------------------------------------- the batch, as written
\* The leaves written so far, and the first and the last write of a leaf.
Written == {writes[i].path : i \in 1..Len(writes)}
FirstWrite(p) ==
    CHOOSE i \in 1..Len(writes) :
        writes[i].path = p /\ \A j \in 1..(i - 1) : writes[j].path # p
LastWrite(p) ==
    CHOOSE i \in 1..Len(writes) :
        writes[i].path = p /\ \A j \in (i + 1)..Len(writes) : writes[j].path # p

\* Declaration order of two leaves, nested slots expanded depth-first:
\* the lexicographic order of their variant chains.
PathLess(p, q) ==
    \E n \in 1..Len(p) :
        /\ n <= Len(q)
        /\ p[n] < q[n]
        /\ \A m \in 1..(n - 1) : p[m] = q[m]

\* it names exactly the written leaves, each once, in first-write order.
FirstWriteOrdered(it) ==
    /\ {it[i].path : i \in 1..Len(it)} = Written
    /\ \A i, j \in 1..Len(it) : i < j => FirstWrite(it[i].path) < FirstWrite(it[j].path)

\* C1: the BitFieldSet's iterator yields exactly the leaves written at
\* least once, each once, in first-write order, each with the first value
\* written to it, for every struct and every sequence of writes (nested
\* ones included).
C1_BitFirstWriteFirstValue ==
    /\ ~bit.panicked
    /\ FirstWriteOrdered(IntoIter(bit))
    /\ \A i \in 1..Len(IntoIter(bit)) :
          IntoIter(bit)[i].val = writes[FirstWrite(IntoIter(bit)[i].path)].val

\* C2: the PerfFieldSet's iterator yields exactly the leaves written at
\* least once, each once, in first-write order, each with the last value
\* written to it, for every struct and every sequence of writes (nested
\* ones included).
C2_PerfFirstWriteLastValue ==
    /\ ~perf.panicked
    /\ FirstWriteOrdered(IntoIter(perf))
    /\ \A i \in 1..Len(IntoIter(perf)) :
          IntoIter(perf)[i].val = writes[LastWrite(IntoIter(perf)[i].path)].val

\* C3: the OptFieldSet's iterator yields one event per leaf written at
\* least once and none for a leaf never written, in strict declaration
\* order (depth-first), each with the last value written to the leaf,
\* whatever the order of the writes.
C3_OptDeclarationOrderLastValue ==
    LET it == OptIntoIter(opt, root)
    IN /\ {it[i].path : i \in 1..Len(it)} = Written
       /\ \A i, j \in 1..Len(it) : i < j => PathLess(it[i].path, it[j].path)
       /\ \A i \in 1..Len(it) : it[i].val = writes[LastWrite(it[i].path)].val

\* C3 witness: on Outer, a leaf two levels down was written twice with
\* different values, after a leaf declared later in the struct tree, and
\* the iterator yields two events.
C3_Witness ==
    /\ root = "Outer"
    /\ Len(writes) = 3
    /\ Len(writes[2].path) = 3
    /\ PathLess(writes[2].path, writes[1].path)
    /\ writes[3].path = writes[2].path
    /\ writes[3].val # writes[2].val
    /\ Len(OptIntoIter(opt, root)) = 2

\* Replay: apply(event) for every event of a recorder's iterator, in
\* order, on the struct m (the loop of the crate doc example).
RECURSIVE Replay(_, _)
Replay(m, events) ==
    IF events = <<>> THEN m
    ELSE Replay(ModelApply(m, root, Head(events).path, Head(events).val), Tail(events))

FlatIndex(p) == Cardinality({q \in FieldTypePaths(root) : PathLess(q, p)})

\* rec holds an event for leaf p at an array position below the cursor.
HoldsBelowCursor(rec, p) ==
    \E pos \in 1..rec.len : rec.fields[pos].some /\ rec.fields[pos].tag.path = p

\* Positions 0..len-1 of the array are populated, the others empty, the
\* iterator yields len events and len counts the leaves written.
CursorCountsPrefix(rec) ==
    /\ ~rec.panicked
    /\ \A i \in 1..Len(rec.fields) : rec.fields[i].some <=> i <= rec.len
    /\ Len(IntoIter(rec)) = rec.len
    /\ rec.len = Cardinality(Written)

\* C5: for the BitFieldSet and the PerfFieldSet, in every reachable state,
\* array positions 0..cursor-1 are populated and cursor..Variance-1 empty,
\* the iterator yields exactly cursor events, and the cursor is the
\* number of distinct leaves written.
C5_CursorCountsPrefix == CursorCountsPrefix(bit) /\ CursorCountsPrefix(perf)

\* The guard bit of flat index i in the BitFieldSet's words.
GuardBit(i) == (i % WordBits) \in bit.bitset[(i \div WordBits) + 1]

\* C6: in every reachable state of the BitFieldSet, for every leaf of the
\* struct tree, the guard bit at the leaf's flat index is set iff the
\* leaf was written and an event for it sits below the cursor.
C6_GuardBitIffRecorded ==
    \A p \in FieldTypePaths(root) :
        GuardBit(FlatIndex(p)) <=> (p \in Written /\ HoldsBelowCursor(bit, p))

\* The chains of nested fields of the struct tree: the nested slots at
\* every depth.
NestedPaths ==
    UNION { {SubSeq(p, 1, n) : n \in 1..(Len(p) - 1)} : p \in FieldTypePaths(root) }

\* C7: the window of a nested slot in the array, the bit vector and the
\* index table starts at the sum of the variances of the preceding slots
\* (at bit granularity, not rounded to words) and has length
\* Variance(sub-struct); so every leaf has its own flat index and guard
\* bit, and a write to a leaf touches the guard bit and the table entry
\* of that leaf only.
C7_WindowsAtFlatOffsets ==
    /\ \A q \in NestedPaths :
          LET b == BitViewAt(BitTop(bit), root, q)
              t == PerfViewAt(PerfTop(perf), root, q)
              n == Variance(StructAt(root, q))
          IN /\ b.ok /\ t.ok
             /\ b.flo = FlatIndex(q) /\ b.fhi = b.flo + n
             /\ t.flo = FlatIndex(q) /\ t.fhi = t.flo + n
             /\ t.blo = FlatIndex(q) /\ t.bhi = t.blo + n
             /\ WordBits * b.wlo + b.offset = FlatIndex(q)
             /\ WordBits * b.whi >= FlatIndex(q) + n
    /\ (writes # <<>> /\ ~bit.panicked) => bit.acc = FlatIndex(writes[Len(writes)].path)
    /\ (writes # <<>> /\ ~perf.panicked) => perf.acc = FlatIndex(writes[Len(writes)].path)

\* C8: no write to any recorder ever indexes the array, the bit vector
\* or the index table out of range, and the cursor never exceeds
\* Variance.
C8_NoOutOfRangeAccess ==
    /\ ~bit.panicked /\ bit.len <= Variance(root)
    /\ ~perf.panicked /\ perf.len <= Variance(root)

\* C9: Variance, as the derive computes it, is the number of leaf fields
\* reachable from the struct, for the root and for every struct nested in
\* it at any depth; the recorders' arrays have that length.
C9_VarianceIsLeafCount ==
    /\ \A q \in NestedPaths \cup {<<>>} :
          Variance(StructAt(root, q)) = Cardinality(FieldTypePaths(StructAt(root, q)))
    /\ Len(bit.fields) = Cardinality(FieldTypePaths(root))
    /\ Len(perf.fields) = Cardinality(FieldTypePaths(root))
    /\ Len(perf.bitset) = Cardinality(FieldTypePaths(root))

\* C9 witness: recorders of Outer (leaves before a nested struct that
\* itself ends in a nested struct) were built for 6 leaves and written.
C9_Witness ==
    /\ root = "Outer"
    /\ NestedPaths = {<<3>>, <<3, 3>>}
    /\ Variance("Inner2") = 2 /\ Variance("Inner") = 4 /\ Variance(root) = 6
    /\ Len(perf.fields) = 6
    /\ writes # <<>>

\* The events of it under the nested slot q, the enclosing variants
\* removed.
SubEvents(it, q) ==
    LET Under(e) == Len(e.path) > Len(q) /\ SubSeq(e.path, 1, Len(q)) = q
        under == SelectSeq(it, Under)
    IN [i \in 1..Len(under) |->
           [path |-> SubSeq(under[i].path, Len(q) + 1, Len(under[i].path)),
            val |-> under[i].val]]

\* C10: for each recorder kind and each nested slot q, whatever writes
\* to other slots are interleaved, the parent's events under q, unwrapped,
\* are the events a fresh top-level recorder of the sub-struct yields for
\* the same writes.
C10_NestedAsTopLevel ==
    /\ ~bit.panicked /\ ~perf.panicked
    /\ \A q \in NestedPaths :
          LET s == StructAt(root, q)
              ws == SubEvents(writes, q)
          IN /\ SubEvents(OptIntoIter(opt, root), q)
                   = OptIntoIter(OptRun(s, ws, Len(ws)), s)
             /\ SubEvents(IntoIter(bit), q) = IntoIter(BitRun(s, ws, Len(ws)))
             /\ SubEvents(IntoIter(perf), q) = IntoIter(PerfRun(s, ws, Len(ws)))

\* The number of writes made to leaf p.
WriteCount(p) == Cardinality({i \in 1..Len(writes) : writes[i].path = p})

\* C11: fed the same writes, the BitFieldSet and the PerfFieldSet yield
\* sequences of the same length naming the same leaf at every position;
\* they differ only in the value, and only at leaves written more than
\* once (Bit holds the first value, Perf the latest); with no leaf written
\* twice they are identical.
C11_BitAndPerfSameShape ==
    /\ ~bit.panicked /\ ~perf.panicked
    /\ Len(IntoIter(bit)) = Len(IntoIter(perf))
    /\ \A i \in 1..Len(IntoIter(bit)) :
          LET b == IntoIter(bit)[i]
              q == IntoIter(perf)[i]
          IN /\ b.path = q.path
             /\ b.val # q.val => WriteCount(b.path) > 1
             /\ b.path \in Written
             /\ b.val = writes[FirstWrite(b.path)].val
             /\ q.val = writes[LastWrite(b.path)].val
    /\ (\A p \in Written : WriteCount(p) = 1) => IntoIter(bit) = IntoIter(perf)

\* C12: a fresh recorder of any of the three kinds that received no write
\* yields no event: the cursor is 0, every guard bit clear, every table
\* entry 0, every optional slot absent.
C12_EmptyBatchYieldsNothing ==
    writes = <<>> =>
        /\ OptIntoIter(opt, root) = <<>>
        /\ IntoIter(bit) = <<>>
        /\ IntoIter(perf) = <<>>
        /\ bit.len = 0 /\ perf.len = 0
        /\ \A w \in 1..Len(bit.bitset) : bit.bitset[w] = {}
        /\ \A i \in 1..Len(perf.bitset) : perf.bitset[i] = 0
        /\ \A i \in 1..Len(bit.fields) : ~bit.fields[i].some /\ ~perf.fields[i].some
        /\ Len(opt_iter(opt, root, <<>>)) = Cardinality(FieldTypePaths(root))
        /\ \A i \in 1..Len(opt_iter(opt, root, <<>>)) : ~opt_iter(opt, root, <<>>)[i].some

\* C12 witness: the three fresh recorders of Outer, six leaves each, with
\* no write made.
C12_Witness ==
    /\ root = "Outer"
    /\ writes = <<>>
    /\ Len(perf.fields) = 6 /\ Len(bit.fields) = 6
    /\ Len(opt_iter(opt, root, <<>>)) = 6

\* The bits of a word array that are 1, by flat bit number.
FlatBits(bits) ==
    UNION { {WordBits * (w - 1) + b : b \in bits[w]} : w \in 1..Len(bits) }

RECURSIVE SumSeq(_)
SumSeq(ks) == IF ks = <<>> THEN 0 ELSE Head(ks) + SumSeq(Tail(ks))

\* C13: on a view of base b, test(i), set(i) and clear(i) read or change
\* exactly bit b+i of the array (word (b+i) div 32, bit (b+i) mod 32) and
\* no other bit; test(i) is true after set(i) and false after clear(i);
\* offset(k) gives a view of base b+k, so chained offsets add up.
C13_OffsetViewAddressesBasePlusI ==
    LET b == SumSeq(store.chain)
        l == store.last
    IN /\ store.view.offset = b
       /\ l.op = "test" =>
            /\ l.res = ((b + l.i) \in FlatBits(store.bits))
            /\ store.bits = l.before
       /\ l.op = "set" =>
            /\ FlatBits(store.bits) = FlatBits(l.before) \cup {b + l.i}
            /\ ((b + l.i) % WordBits) \in store.bits[((b + l.i) \div WordBits) + 1]
            /\ BitSetOffsetted_test(store.bits, store.view, l.i)
       /\ l.op = "clear" =>
            /\ FlatBits(store.bits) = FlatBits(l.before) \ {b + l.i}
            /\ ~BitSetOffsetted_test(store.bits, store.view, l.i)
       /\ l.op = "offset" => store.bits = l.before

\* C13 witness: a view derived through two nonzero offsets sets a bit of
\* the second word while a bit of the first word is set.
C13_Witness ==
    /\ Len(store.chain) = 3
    /\ store.chain[2] > 0 /\ store.chain[3] > 0
    /\ store.last.op = "set"
    /\ SumSeq(store.chain) + store.last.i >= WordBits
    /\ store.last.before[1] # {}
    /\ FlatBits(store.bits) # FlatBits(store.last.before)

\* The write made by a step, and the leaf setter it reaches: the chain of
\* nested accessors, the struct holding the leaf and the leaf's field.
StepTag == writes'[Len(writes')]
StepChain == SubSeq(StepTag.path, 1, Len(StepTag.path) - 1)
StepField == StepTag.path[Len(StepTag.path)]
StepIndex == index_expr(StructAt(root, StepChain), StepField)

\* C14: a BitFieldLeafSetter write on a leaf whose guard bit is set
\* changes nothing (bit vector, array, cursor); on a leaf whose bit is
\* unset it sets exactly that bit, stores wrap(value) at array[cursor] of
\* the array it holds, increments the cursor by 1 and changes nothing
\* else.
C14_BitLeafWriteFrame ==
    [][(writes' # writes /\ ~bit.panicked) =>
          LET v == BitViewAt(BitTop(bit), root, StepChain)
              g == WordBits * v.wlo + idx(v, StepIndex)
          IN /\ ~bit'.panicked
             /\ IF g \in FlatBits(bit.bitset)
                THEN /\ bit'.bitset = bit.bitset
                     /\ bit'.fields = bit.fields
                     /\ bit'.len = bit.len
                ELSE /\ FlatBits(bit'.bitset) = FlatBits(bit.bitset) \cup {g}
                     /\ bit'.len = bit.len + 1
                     /\ bit'.fields =
                          [bit.fields EXCEPT ![v.flo + bit.len + 1] = Some(StepTag)]]_vars

\* C15: a PerfFieldLeafSetter re-write (table[local] # 0) overwrites only
\* array[table[local] - 1], which held and still holds an event of the
\* same leaf; cursor and table are unchanged.  A first write
\* (table[local] = 0) changes only table[local] (to cursor + 1),
\* array[cursor] and the cursor (+1).
C15_PerfLeafWriteFrame ==
    [][(writes' # writes /\ ~perf.panicked) =>
          LET v == PerfViewAt(PerfTop(perf), root, StepChain)
              t == perf.bitset[v.blo + StepIndex + 1]
          IN /\ ~perf'.panicked
             /\ IF t # 0
                THEN /\ perf'.bitset = perf.bitset
                     /\ perf'.len = perf.len
                     /\ perf.fields[v.flo + t].some
                     /\ perf.fields[v.flo + t].tag.path = StepTag.path
                     /\ perf'.fields = [perf.fields EXCEPT ![v.flo + t] = Some(StepTag)]
                ELSE /\ perf'.bitset = [perf.bitset EXCEPT ![v.blo + StepIndex + 1] = perf.len + 1]
                     /\ perf'.len = perf.len + 1
                     /\ perf'.fields =
                          [perf.fields EXCEPT ![v.flo + perf.len + 1] = Some(StepTag)]]_vars

\* ---- the slot-index table at cursors near u16::MAX
\* The setter of that PerfFieldSet: the whole arrays, of length VARIANCE.
EntryTop ==
    [blo |-> 0, bhi |-> EntryLeaves, flo |-> 0, fhi |-> EntryLeaves,
     f |-> <<>>, ok |-> TRUE]

\* apply(tag) of the k-th leaf on the PerfFieldSet of a struct of leaves
\* only: the leaf's index expression is k - 1.
EntryWrite(k, value) ==
    /\ entry.n < MaxEntryOps
    /\ ~entry.rec.panicked
    /\ k <= EntryLeaves
    /\ entry' = [rec |-> PerfFieldLeafSetter_set(entry.rec,
                             [EntryTop EXCEPT !.f = <<k>>], k - 1, value),
                 n |-> entry.n + 1,
                 k |-> k]
    /\ UNCHANGED <<root, writes, model, opt, bit, perf, store, alloc, overflow_checks>>

InitEntry ==
    /\ root = "DomainModel"
    /\ writes = <<>>
    /\ model = ModelNew(root)
    /\ opt = OptNew(root)
    /\ bit = BitNew(root)
    /\ perf = PerfNew(root)
    /\ store = StoreNew
    /\ alloc = AllocIdle
    /\ overflow_checks \in BOOLEAN
    /\ entry \in {EntryStart(c) : c \in EntryCursors}

NextEntry == \E k \in EntryFields, value \in Values : EntryWrite(k, value)

SpecEntry == InitEntry /\ [][NextEntry]_vars

\* C16: a first write to a leaf stores exactly cursor + 1 in the leaf's
\* slot-index entry, at every cursor 0..Variance-1 of a schema of any
\* size: the conversion to u16 and the + 1 never truncate, wrap to 0 or
\* overflow, so the written leaf's entry is non-zero, and a re-write lands
\* on the position that holds the leaf's own event.
C16_TableEntryIsCursorPlusOne ==
    [][(entry'.n # entry.n) =>
          LET t == entry.rec.bitset[entry'.k]
          IN IF t = 0
             THEN /\ ~entry'.rec.panicked
                  /\ entry'.rec.bitset[entry'.k] = entry.rec.len + 1
                  /\ entry'.rec.bitset[entry'.k] # 0
             ELSE /\ entry.rec.fields[t].some
                  /\ entry.rec.fields[t].tag.path = <<entry'.k>>
                  /\ entry'.rec.fields[t].tag.path = <<entry'.k>>]_vars

\* The leaf slot at path p of a struct or of an OptFieldSet.
RECURSIVE LeafAt(_, _)
LeafAt(m, p) == IF Len(p) = 1 THEN m[p[1]] ELSE LeafAt(m[Head(p)], Tail(p))

\* C17: apply(tag) on the live struct overwrites exactly the leaf the tag
\* names with the carried value, whatever the leaf held, and leaves every
\* other leaf at every nesting level unchanged; a nested tag changes only
\* the sub-struct of its slot, as that sub-struct's own apply of the
\* inner tag does.
C17_ModelApplyFrame ==
    [][(writes' # writes) =>
          LET t == StepTag
              k == Head(t.path)
          IN /\ \A p \in FieldTypePaths(root) :
                   LeafAt(model', p) = IF p = t.path THEN t.val ELSE LeafAt(model, p)
             /\ \A j \in 1..Len(Fields(root)) : j # k => model'[j] = model[j]
             /\ is_fieldset(Fields(root)[k]) =>
                   model'[k] = ModelApply(model[k], Fields(root)[k].ty, Tail(t.path), t.val)]_vars

\* A nested leaf overwritten with a second value while a top-level leaf
\* keeps the value written first.
C17_Witness ==
    /\ root = "Outer"
    /\ Len(writes) = 3
    /\ writes[1].path = <<1>>
    /\ writes[2].path = <<3, 3, 1>>
    /\ writes[3].path = <<3, 3, 1>>
    /\ writes[2].val # writes[3].val
    /\ LeafAt(model, <<3, 3, 1>>) = writes[3].val
    /\ LeafAt(model, <<1>>) = writes[1].val
    /\ LeafAt(model, <<3, 3, 2>>) = DefaultValue

\* C18: apply(tag) on the OptFieldSet sets exactly the slot of the leaf
\* the tag names to Some(value), replacing any earlier value, and leaves
\* every other slot, in the same struct and in every nested OptFieldSet,
\* unchanged; a nested tag is forwarded to the sub-set of its slot and
\* changes nothing outside it; no slot ever goes from Some back to None.
C18_OptApplyFrame ==
    [][(writes' # writes) =>
          LET t == StepTag
              k == Head(t.path)
          IN /\ \A p \in FieldTypePaths(root) :
                   /\ p = t.path => LeafAt(opt', p).some /\ LeafAt(opt', p).val = t.val
                   /\ p # t.path => LeafAt(opt', p) = LeafAt(opt, p)
                   /\ LeafAt(opt, p).some => LeafAt(opt', p).some
             /\ \A j \in 1..Len(Fields(root)) : j # k => opt'[j] = opt[j]
             /\ is_fieldset(Fields(root)[k]) =>
                   opt'[k] = OptApply(opt[k], Fields(root)[k].ty, Tail(t.path), t.val)]_vars

\* A nested slot written twice holds the second value; its neighbour is
\* still absent and a top-level slot still holds what it was given.
C18_Witness ==
    /\ root = "Outer"
    /\ Len(writes) = 3
    /\ writes[1].path = <<2>>
    /\ writes[2].path = <<3, 1>>
    /\ writes[3].path = <<3, 1>>
    /\ writes[2].val # writes[3].val
    /\ LeafAt(opt, <<3, 1>>) = [some |-> TRUE, val |-> writes[3].val]
    /\ LeafAt(opt, <<2>>) = [some |-> TRUE, val |-> writes[1].val]
    /\ ~LeafAt(opt, <<3, 2>>).some

\* C19: in every state of a batch every entry of the PerfFieldSet's
\* slot-index table is 0 or in 1..cursor; the non-zero entries are
\* pairwise distinct and are exactly 1..cursor; and where table[i] = p > 0,
\* array[p - 1] holds an event whose tag names leaf i.
C19_PerfTableInvariant ==
    LET tbl == perf.bitset
        nz == {i \in 1..Len(tbl) : tbl[i] # 0}
    IN /\ \A i \in 1..Len(tbl) : tbl[i] \in 0..perf.len
       /\ \A i, j \in nz : i # j => tbl[i] # tbl[j]
       /\ {tbl[i] : i \in nz} = 1..perf.len
       /\ \A i \in nz : /\ perf.fields[tbl[i]].some
                        /\ FlatIndex(perf.fields[tbl[i]].tag.path) = i - 1

\* An array position that holds an event still holds an event of the
\* same leaf after the step, and the cursor moved by 0 or 1.
PositionsStable(old, new) ==
    /\ new.len \in {old.len, old.len + 1}
    /\ \A p \in 1..Len(old.fields) :
          old.fields[p].some =>
             /\ new.fields[p].some
             /\ new.fields[p].tag.path = old.fields[p].tag.path

\* C20: across a batch the cursor of a BitFieldSet and of a PerfFieldSet
\* never decreases and grows by at most 1 per write, and an array position
\* that holds an event of a leaf holds an event of that leaf in every
\* later state, whatever window later writes go through.
C20_PositionsStable ==
    [][(writes' # writes) => PositionsStable(bit, bit') /\ PositionsStable(perf, perf')]_vars

\* ---- the bit vector of a BitFieldSet across word boundaries
\* The VARIANCEs tried, those next to a multiple of the word size, and
\* the leaves (1-based field numbers) written: the first, the last and
\* those on either side of a word boundary.
AllocVariances == {v \in 1..MaxAllocVariance : v % WordBits \in {0, 1, WordBits - 1}}
AllocFields(variance) ==
    {k \in 1..variance : k = 1 \/ k = variance \/ k % WordBits \in {0, 1}}

\* apply(tag) of the k-th leaf on the BitFieldSet of a struct of leaves
\* only: the leaf's index expression is k - 1.
AllocWrite(k, value) ==
    /\ alloc.n < MaxAllocOps
    /\ ~alloc.rec.panicked
    /\ alloc' = [alloc EXCEPT
                   !.rec = BitFieldLeafSetter_set(alloc.rec,
                               [BitTop(alloc.rec) EXCEPT !.f = <<k>>], k - 1, value),
                   !.n = alloc.n + 1,
                   !.k = k,
                   !.done = alloc.done \cup {k - 1}]
    /\ UNCHANGED <<root, writes, model, opt, bit, perf, store, entry, overflow_checks>>

InitAlloc ==
    /\ root = "DomainModel"
    /\ writes = <<>>
    /\ model = ModelNew(root)
    /\ opt = OptNew(root)
    /\ bit = BitNew(root)
    /\ perf = PerfNew(root)
    /\ store = StoreNew
    /\ entry = EntryIdle
    /\ overflow_checks \in BOOLEAN
    /\ alloc \in {AllocStart(v) : v \in AllocVariances}

NextAlloc == \E k \in AllocFields(alloc.variance), value \in Values : AllocWrite(k, value)

SpecAlloc == InitAlloc /\ [][NextAlloc]_vars

\* The (word, bit) pair BitSetOffsetted addresses for index i of view v.
WordAndBit(v, i) == <<idx(v, i) \div WordBits, idx(v, i) % WordBits>>

\* C21: the (VARIANCE + 31) div 32 words of a BitFieldSet hold at least
\* VARIANCE bits, the word index i div 32 of every flat index i in
\* 0..VARIANCE-1 is within the words allocated, and distinct flat indexes
\* address distinct (word, bit) pairs: the bits set are those of the
\* leaves written and no write is out of range.
C21_BitVectorHoldsVarianceBits ==
    LET v == alloc.variance
        top == BitTop(alloc.rec)
        words == Len(alloc.rec.bitset)
    IN /\ words * WordBits >= v
       /\ \A i \in 0..(v - 1) :
             /\ i \div WordBits < words
             /\ BitSetOffsetted_inrange(top, i)
       /\ Cardinality({WordAndBit(top, i) : i \in 0..(v - 1)}) = v
       /\ ~alloc.rec.panicked
       /\ FlatBits(alloc.rec.bitset) = alloc.done
       /\ alloc.rec.len = Cardinality(alloc.done)

\* A struct of 33 leaves: the first leaf and the last, whose bit is bit 0
\* of the second word, are both recorded.
C21_Witness ==
    /\ alloc.variance = WordBits + 1
    /\ alloc.done = {0, WordBits}
    /\ alloc.rec.bitset = <<{0}, {0}>>
    /\ alloc.rec.len = 2

\* C22: for each of the three recorders and every sequence of writes,
\* applying the recorder's own events in order to a fresh recorder of the
\* same kind and iterating that one yields the same events in the same
\* order; a fresh recorder given a single apply(t) yields exactly <<t>>,
\* for a tag t of any nesting depth.
C22_RecorderRoundTrip ==
    LET eo == OptIntoIter(opt, root)
        eb == IntoIter(bit)
        ep == IntoIter(perf)
        rb == BitRun(root, eb, Len(eb))
        rp == PerfRun(root, ep, Len(ep))
    IN /\ OptIntoIter(OptRun(root, eo, Len(eo)), root) = eo
       /\ ~bit.panicked /\ ~rb.panicked /\ IntoIter(rb) = eb
       /\ ~perf.panicked /\ ~rp.panicked /\ IntoIter(rp) = ep
       /\ Len(writes) = 1 => eo = writes /\ eb = writes /\ ep = writes

\* The events of a sequence, as a set.
EventSet(it) == {it[i] : i \in 1..Len(it)}

\* C23: for every struct and sequence of writes the events of the
\* OptFieldSet and of the PerfFieldSet are the same set (same leaves, same
\* last-written values), in whatever order, and replaying either onto the
\* same starting struct gives the same struct.
C23_OptAndPerfReplayEquivalent ==
    LET eo == OptIntoIter(opt, root)
        ep == IntoIter(perf)
    IN /\ ~perf.panicked
       /\ EventSet(eo) = EventSet(ep)
       /\ Len(eo) = Len(ep)
       /\ Replay(ModelNew(root), eo) = Replay(ModelNew(root), ep)
       /\ Replay(model, eo) = Replay(model, ep)

\* A struct whose leaves all hold value v.
RECURSIVE ModelFill(_, _)
ModelFill(name, v) ==
    [k \in 1..Len(Fields(name)) |->
        IF is_fieldset(Fields(name)[k]) THEN ModelFill(Fields(name)[k].ty, v) ELSE v]

\* C24: the struct's own iterator yields exactly Variance events, one per
\* leaf in declaration order with nested slots expanded depth-first, each
\* carrying the leaf's current value; applying them to any other struct
\* of the same type makes it equal to the source struct.
C24_ModelIterationRoundTrip ==
    LET it == ModelIntoIter(model, root)
    IN /\ Len(it) = Variance(root)
       /\ {it[i].path : i \in 1..Len(it)} = FieldTypePaths(root)
       /\ \A i \in 1..(Len(it) - 1) : PathLess(it[i].path, it[i + 1].path)
       /\ \A i \in 1..Len(it) : it[i].val = LeafAt(model, it[i].path)
       /\ \A v \in {DefaultValue} \cup Values : Replay(ModelFill(root, v), it) = model

\* On Outer after three writes the six events carry a top-level value, a
\* value two levels down and the defaults of the leaves never written.
C24_Witness ==
    /\ root = "Outer"
    /\ Len(writes) = 3
    /\ LeafAt(model, <<1>>) = 1
    /\ LeafAt(model, <<3, 3, 2>>) = 2
    /\ LeafAt(model, <<3, 1>>) = 1
    /\ Len(ModelIntoIter(model, root)) = 6
    /\ ModelIntoIter(model, root)[1] = [path |-> <<1>>, val |-> 1]
    /\ ModelIntoIter(model, root)[2] = [path |-> <<2>>, val |-> DefaultValue]
    /\ ModelIntoIter(model, root)[6] = [path |-> <<3, 3, 2>>, val |-> 2]
    /\ Replay(ModelFill(root, 2), ModelIntoIter(model, root)) = model

\* The orders the events of a sequence can be applied in.
RECURSIVE Orders(_)
Orders(it) ==
    IF it = <<>> THEN {<<>>}
    ELSE UNION { { <<it[i]>> \o r :
                     r \in Orders(SubSeq(it, 1, i - 1) \o SubSeq(it, i + 1, Len(it))) } :
                 i \in 1..Len(it) }

\* it holds each leaf at most once; replayed onto m twice it gives what it
\* gives replayed once; replayed in any of the orders it gives the same
\* struct; the leaves it does not name keep the values they have in m.
ReplayIdempotentAnyOrder(m, it, orders) ==
    LET once == Replay(m, it)
    IN /\ \A i, j \in 1..Len(it) : i # j => it[i].path # it[j].path
       /\ Replay(once, it) = once
       /\ \A pit \in orders : Replay(m, pit) = once
       /\ \A i \in 1..Len(it) : LeafAt(once, it[i].path) = it[i].val
       /\ \A p \in FieldTypePaths(root) \ {it[i].path : i \in 1..Len(it)} :
             LeafAt(once, p) = LeafAt(m, p)

\* C25: the events a recorder yields name each leaf at most once, so
\* applying them to a struct twice gives what applying them once gives,
\* applying them in any permuted order gives what iteration order gives,
\* and the leaves not named keep their prior values (the struct they are
\* applied to is a fresh one or one whose leaves hold another value).
C25_ReplayIdempotentOrderInsensitive ==
    [](LET eo == OptIntoIter(opt, root)
           eb == IntoIter(bit)
           ep == IntoIter(perf)
           oo == Orders(eo)
           ob == Orders(eb)
           op == Orders(ep)
       IN \A m \in {ModelNew(root), ModelFill(root, NumValues)} :
             /\ ReplayIdempotentAnyOrder(m, eo, oo)
             /\ ~bit.panicked => ReplayIdempotentAnyOrder(m, eb, ob)
             /\ ~perf.panicked => ReplayIdempotentAnyOrder(m, ep, op))

\* On Outer three leaves were written, one of them nested: the
\* OptFieldSet yields three events, the PerfFieldSet the two top-level
\* ones, and the replay onto a struct of 2s changes the leaves named and
\* keeps a leaf not named.
C25_Witness ==
    /\ root = "Outer"
    /\ ~perf.panicked
    /\ Len(OptIntoIter(opt, root)) = 3
    /\ Len(IntoIter(perf)) >= 2
    /\ LeafAt(model, <<1>>) = 1
    /\ LeafAt(model, <<2>>) = 1
    /\ LeafAt(Replay(ModelFill(root, 2), OptIntoIter(opt, root)), <<1>>) = 1
    /\ LeafAt(Replay(ModelFill(root, 2), IntoIter(perf)), <<2>>) = 1
    /\ LeafAt(Replay(ModelFill(root, 2), OptIntoIter(opt, root)), <<3, 3, 2>>) = 2

====
